---------------------------- MODULE Spec2Model ----------------------------
(***************************************************************************)
(* Btc-mempool-watcher: the expiring cache (src/src/Cache.py) and the      *)
(* mempool poller (src/src/BtcOutputWatcher.py).                           *)
(*                                                                         *)
(* Time is the value time.time() returns, read as an integer number of     *)
(* seconds.  Python dicts are functions whose DOMAIN is the set of keys    *)
(* present.  A call that can raise returns a record with a `raised` field. *)
(***************************************************************************)
EXTENDS Integers, Sequences, FiniteSets, TLC

VARIABLES
    now,              \* the clock: what time.time() returns
    store,            \* Cache._store: key -> [value, expiry]
    op,               \* cache driver: the last call made on the cache and what it returned
    ledger,           \* cache driver: per key, the last set not followed by a delete
    pc,               \* poller: where run() stands
    watched_outputs,  \* BtcOutputWatcher.watched_outputs
    txids,            \* poller: the part of the listing the for loop has not visited yet
    txid,             \* poller: the loop variable of _process_mempool
    dumps,            \* the files of dump_folder, by transaction id
    markedAt,         \* poller: per id, the time of its last cache.set (-1: never)
    cyc,              \* poller: what the current cycle of run() has done so far
    tx,               \* match driver: the transaction handed to the match predicate
    spends,           \* match driver: what the match predicate returned
    order             \* scan driver: which calls fail, and one scan in each of two orders

vars == <<now, store, op, ledger, pc, watched_outputs, txids, txid, dumps,
          markedAt, cyc, tx, spends, order>>

cacheVars  == <<op, ledger>>
pollerVars == <<pc, watched_outputs, txids, txid, dumps, markedAt, cyc>>
matchVars  == <<tx, spends, order>>

---------------------------------------------------------------------------
(* Bounds and parameters *)

MaxTime  == 3      \* the clock runs from 0 to MaxTime
MaxTtl   == 2      \* custom TTLs given to set() range over 0..MaxTtl
CacheTtl == 2      \* default_ttl of the cache (cache_ttl of the watcher)
MaxList  == 2      \* a mempool listing holds at most MaxList identifiers
MaxLines == 2      \* the watch-list file holds at most MaxLines lines
MaxVin   == 2      \* a transaction handed to the match predicate has at most MaxVin inputs
MaxOrder == 3      \* a listing scanned in two orders holds at most MaxOrder identifiers
FetchInterval == 1 \* fetch_interval of the watcher

Keys    == {"k1", "k2"}
Values  == {"v1", "v2"}
NoValue == "None"
NoKey   == "-"

EmptyDict == [k \in {} |-> 0]
None == <<>>

---------------------------------------------------------------------------
(* Cache (src/src/Cache.py) *)

\* dict.pop(key, None)
pop(s, key) == [k \in DOMAIN s \ {key} |-> s[k]]

\* s[key] = entry
put(s, key, entry) == [k \in DOMAIN s \cup {key} |-> IF k = key THEN entry ELSE s[k]]

\* _is_expired with the comparison turned round
is_expired_inverted(s, key, t) ==
    IF key \notin DOMAIN s THEN TRUE ELSE t < s[key].expiry

is_expired(s, key, t) ==
    IF key \notin DOMAIN s THEN TRUE ELSE t > s[key].expiry

\* cleanup that empties the store
cleanup_clears(s, t) == EmptyDict

cleanup(s, t) ==
    LET expired_keys == {key \in DOMAIN s : is_expired(s, key, t)}
    IN  [k \in DOMAIN s \ expired_keys |-> s[k]]

\* set that keeps the later of the old and the new expiry
set_merges_ttl(s, key, value, ttl, t) ==
    LET expiry == t + (IF ttl # None THEN ttl[1] ELSE CacheTtl)
        old    == IF key \in DOMAIN s THEN s[key].expiry ELSE expiry
    IN  put(s, key, [value |-> value, expiry |-> IF old > expiry THEN old ELSE expiry])

\* Optional[int]: None is <<>>, the integer n is <<n>>
set(s, key, value, ttl, t) ==
    LET expiry == t + (IF ttl # None THEN ttl[1] ELSE CacheTtl)
    IN  put(s, key, [value |-> value, expiry |-> expiry])

\* __getitem__ raising on a stale entry without removing it
getitem_no_evict(s, key, t) ==
    IF is_expired(s, key, t)
    THEN [store |-> s, raised |-> TRUE, ret |-> NoValue]
    ELSE [store |-> s, raised |-> FALSE, ret |-> s[key].value]

getitem(s, key, t) ==
    IF is_expired(s, key, t)
    THEN [store |-> pop(s, key), raised |-> TRUE, ret |-> NoValue]
    ELSE [store |-> s, raised |-> FALSE, ret |-> s[key].value]

get(s, key, default, t) ==
    LET r == getitem(s, key, t)
    IN  IF r.raised THEN [store |-> r.store, ret |-> default]
        ELSE [store |-> r.store, ret |-> r.ret]

setitem(s, key, value, t) ==
    LET expiry == t + CacheTtl
    IN  put(s, key, [value |-> value, expiry |-> expiry])

delitem(s, key) ==
    IF key \in DOMAIN s
    THEN [store |-> pop(s, key), raised |-> FALSE]
    ELSE [store |-> s, raised |-> TRUE]

\* __len__ without its sweep
len_no_cleanup(s, t) == [store |-> s, ret |-> Cardinality(DOMAIN s)]

len(s, t) ==
    LET after == cleanup(s, t)
    IN  [store |-> after, ret |-> Cardinality(DOMAIN after)]

iter(s, t) ==
    LET after == cleanup(s, t)
    IN  [store |-> after, ret |-> DOMAIN after]

\* __contains__ removing the entry it finds
contains_pops_on_hit(s, key, t) ==
    [store |-> pop(s, key), ret |-> ~is_expired(s, key, t)]

contains(s, key, t) ==
    IF is_expired(s, key, t)
    THEN [store |-> pop(s, key), ret |-> FALSE]
    ELSE [store |-> s, ret |-> key \in DOMAIN s]

---------------------------------------------------------------------------
(* The cache driven by an arbitrary caller *)

\* ledger[k]: when and with what TTL and value k was last set (at = -1: not set, or
\* deleted since).  It is the cache that never evicts.
NoSet == [at |-> -1, ttl |-> 0, value |-> NoValue]

NoEntry == [value |-> NoValue, expiry |-> -1]

\* The last call: its name and key, what it returned (found, value, size, keys), the
\* keys it evicted, and for a set the entry it replaced.
Call(name, key, found, value, size, keys, evicted, old) ==
    [name |-> name, key |-> key, found |-> found, value |-> value,
     size |-> size, keys |-> keys, evicted |-> evicted, old |-> old]

NoCall == Call("init", NoKey, FALSE, NoValue, 0, {}, {}, NoEntry)

entry(s, key) == IF key \in DOMAIN s THEN s[key] ELSE NoEntry

Tick ==
    /\ pc # "raised"
    /\ now < MaxTime
    /\ now' = now + 1
    /\ op' = IF op.name = "init" THEN op ELSE Call("tick", NoKey, FALSE, NoValue, 0, {}, {}, NoEntry)
    /\ UNCHANGED <<store, ledger, pollerVars, matchVars>>

Cache_set(key, value, ttl) ==
    /\ store' = set(store, key, value, ttl, now)
    /\ op' = Call("set", key, FALSE, value, 0, {}, {}, entry(store, key))
    /\ ledger' = [ledger EXCEPT ![key] =
                    [at |-> now, ttl |-> IF ttl # None THEN ttl[1] ELSE CacheTtl,
                     value |-> value]]
    /\ UNCHANGED <<now, pollerVars, matchVars>>

Cache_setitem(key, value) ==
    /\ store' = setitem(store, key, value, now)
    /\ op' = Call("setitem", key, FALSE, value, 0, {}, {}, entry(store, key))
    /\ ledger' = [ledger EXCEPT ![key] = [at |-> now, ttl |-> CacheTtl, value |-> value]]
    /\ UNCHANGED <<now, pollerVars, matchVars>>

Cache_get(key) ==
    LET r == get(store, key, NoValue, now)
    IN  /\ store' = r.store
        /\ op' = Call("get", key, r.ret # NoValue, r.ret, 0, {}, DOMAIN store \ DOMAIN r.store,
                    NoEntry)
        /\ UNCHANGED <<now, ledger, pollerVars, matchVars>>

Cache_delitem(key) ==
    LET r == delitem(store, key)
    IN  /\ store' = r.store
        /\ op' = Call("delitem", key, ~r.raised, NoValue, 0, {}, {}, NoEntry)
        /\ ledger' = [ledger EXCEPT ![key] = NoSet]
        /\ UNCHANGED <<now, pollerVars, matchVars>>

Cache_contains(key) ==
    LET r == contains(store, key, now)
    IN  /\ store' = r.store
        /\ op' = Call("contains", key, r.ret, NoValue, 0, {}, DOMAIN store \ DOMAIN r.store,
                    NoEntry)
        /\ UNCHANGED <<now, ledger, pollerVars, matchVars>>

Cache_cleanup ==
    /\ store' = cleanup(store, now)
    /\ op' = Call("cleanup", NoKey, FALSE, NoValue, 0, {}, DOMAIN store \ DOMAIN store',
                    NoEntry)
    /\ UNCHANGED <<now, ledger, pollerVars, matchVars>>

Cache_len ==
    LET r == len(store, now)
    IN  /\ store' = r.store
        /\ op' = Call("len", NoKey, FALSE, NoValue, r.ret, {}, DOMAIN store \ DOMAIN r.store,
                    NoEntry)
        /\ UNCHANGED <<now, ledger, pollerVars, matchVars>>

Cache_iter ==
    LET r == iter(store, now)
    IN  /\ store' = r.store
        /\ op' = Call("iter", NoKey, FALSE, NoValue, 0, r.ret, DOMAIN store \ DOMAIN r.store,
                    NoEntry)
        /\ UNCHANGED <<now, ledger, pollerVars, matchVars>>

---------------------------------------------------------------------------
(* Watcher (src/src/BtcOutputWatcher.py): pure parts *)

TxIds     == {"t1", "t2"}
PrevTxids == {"a", "b"}
Vouts     == {0, 1}

\* A line of the watch-list file is the list line.strip().split(",") of its fields;
\* a blank line is <<>>.  A file that does not exist has exists = FALSE.
Lines ==
    { <<>>, <<"a", "0">>, <<"b", "01">>, <<"a">>, <<"a", "x">>, <<"a", "0", "0">> }

RECURSIVE SeqsUpTo(_, _)
SeqsUpTo(S, n) ==
    IF n = 0 THEN {<<>>}
    ELSE LET shorter == SeqsUpTo(S, n - 1)
         IN  shorter \cup {Append(q, x) : q \in shorter, x \in S}

Files ==
    {[exists |-> FALSE, lines |-> <<>>]}
        \cup {[exists |-> TRUE, lines |-> l] : l \in SeqsUpTo(Lines, MaxLines)}

\* int(field): the decimal numerals the model uses; anything else raises ValueError
int(field) ==
    CASE field = "0"  -> [raised |-> FALSE, ret |-> 0]
      [] field = "1"  -> [raised |-> FALSE, ret |-> 1]
      [] field = "01" -> [raised |-> FALSE, ret |-> 1]
      [] OTHER        -> [raised |-> TRUE, ret |-> 0]

\* the loop passing over a line it cannot parse
RECURSIVE read_lines_skips_bad(_, _)
read_lines_skips_bad(lines, watched) ==
    IF lines = <<>> THEN [raised |-> FALSE, ret |-> watched]
    ELSE LET line == Head(lines)
         IN  IF line = <<>> \/ Len(line) # 2 \/ int(line[Len(line)]).raised
             THEN read_lines_skips_bad(Tail(lines), watched)
             ELSE read_lines_skips_bad(Tail(lines),
                                       watched \cup {<<line[1], int(line[2]).ret>>})

RECURSIVE read_lines(_, _)
read_lines(lines, watched) ==
    IF lines = <<>> THEN [raised |-> FALSE, ret |-> watched]
    ELSE LET line == Head(lines)
         IN  IF line = <<>> THEN read_lines(Tail(lines), watched)
             ELSE IF Len(line) # 2 THEN [raised |-> TRUE, ret |-> {}]
             ELSE IF int(line[2]).raised THEN [raised |-> TRUE, ret |-> {}]
             ELSE read_lines(Tail(lines), watched \cup {<<line[1], int(line[2]).ret>>})

load_watched_outputs(f) ==
    IF ~f.exists THEN [raised |-> TRUE, ret |-> {}]
    ELSE read_lines(f.lines, {})

\* the input loop returning after its first input
scan_vin_first_only(vin, watched) ==
    IF vin = <<>> THEN FALSE
    ELSE LET v == Head(vin)
         IN  "txid" \in DOMAIN v /\ "vout" \in DOMAIN v /\ <<v.txid, v.vout>> \in watched

RECURSIVE scan_vin(_, _)
scan_vin(vin, watched) ==
    IF vin = <<>> THEN FALSE
    ELSE LET v == Head(vin)
         IN  IF "txid" \in DOMAIN v /\ "vout" \in DOMAIN v
             THEN IF <<v.txid, v.vout>> \in watched THEN TRUE
                  ELSE scan_vin(Tail(vin), watched)
             ELSE scan_vin(Tail(vin), watched)

\* the match made on the spent txid alone
tx_spends_ignores_index(t, watched) ==
    /\ "vin" \in DOMAIN t
    /\ \E i \in DOMAIN t.vin : \E w \in watched :
          "txid" \in DOMAIN t.vin[i] /\ t.vin[i].txid = w[1]

tx_spends_watched_outputs(t, watched) ==
    scan_vin(IF "vin" \in DOMAIN t THEN t.vin ELSE <<>>, watched)

\* the dump named without the transaction id
dump_transaction_unknown(t, files) == files \cup {"unknown_txid"}

\* the file names of dump_folder after the write
dump_transaction(t, files) ==
    LET name == IF "txid" \in DOMAIN t THEN t.txid ELSE "unknown_txid"
    IN  files \cup {name}

\* What getrawtransaction answers for each identifier of the model.
detail(id) ==
    CASE id = "t1" -> [txid |-> "t1",
                       vin |-> << [txid |-> "a", vout |-> 0], [txid |-> "b", vout |-> 1] >>]
      [] OTHER     -> [txid |-> id,
                       vin |-> << [coinbase |-> "04"], [txid |-> "b", vout |-> 1] >>]

---------------------------------------------------------------------------
(* Watcher: run() and _process_mempool() *)

\* What a cycle has done: whether the file it read existed, the non-blank lines the
\* file held, and whether the load succeeded; the cache was empty when it began; the listing succeeded and what it held; the identifiers
\* found in the cache, fetched, whose fetch raised, whose dump raised; the dump files
\* written; the identifiers marked seen; whether the sweep ran.  Carried from cycle
\* to cycle: whether any call has raised since run() began, and every identifier a
\* listing has returned.
NoCycle ==
    [exists |-> TRUE, lines |-> {}, loaded |-> FALSE, empty |-> TRUE,
     listed |-> FALSE, listing |-> {}, seen |-> {}, fetched |-> {}, failed |-> {},
     lost |-> {}, dumped |-> {}, marked |-> {}, swept |-> FALSE, raised |-> FALSE,
     known |-> {}]

NewCycle(s, prev, f, loaded) ==
    [NoCycle EXCEPT !.exists = f.exists,
                    !.lines = {f.lines[i] : i \in DOMAIN f.lines} \ {<<>>},
                    !.loaded = loaded, !.empty = (s = EmptyDict),
                    !.raised = (prev.raised \/ ~loaded), !.known = prev.known]

\* run(), line 55: an exception of the load leaves run()
Load ==
    /\ pc = "load"
    /\ \E f \in Files :
         LET r == load_watched_outputs(f)
         IN  \/ /\ r.raised
                /\ pc' = "raised"
                /\ cyc' = NewCycle(store, cyc, f, FALSE)
                /\ UNCHANGED watched_outputs
             \/ /\ ~r.raised
                /\ pc' = "list"
                /\ cyc' = NewCycle(store, cyc, f, TRUE)
                /\ watched_outputs' = r.ret
    /\ UNCHANGED <<now, store, op, ledger, txids, txid, dumps, markedAt, matchVars>>

\* _process_mempool(), line 72
List_ok(listing) ==
    /\ pc = "list"
    /\ pc' = "scan"
    /\ txids' = listing
    /\ cyc' = [cyc EXCEPT !.listed = TRUE,
                          !.listing = {listing[i] : i \in DOMAIN listing},
                          !.known = @ \cup {listing[i] : i \in DOMAIN listing}]
    /\ UNCHANGED <<now, store, op, ledger, watched_outputs, txid, dumps, markedAt, matchVars>>

\* line 72 raises and nothing catches it
List_raises_terminates ==
    /\ pc = "list"
    /\ pc' = "raised"
    /\ cyc' = [cyc EXCEPT !.raised = TRUE]
    /\ UNCHANGED <<now, store, op, ledger, watched_outputs, txids, txid, dumps, markedAt,
                   matchVars>>

\* line 72 raises: caught at run(), line 60
List_raises ==
    /\ pc = "list"
    /\ pc' = "sleep"
    /\ cyc' = [cyc EXCEPT !.raised = TRUE]
    /\ UNCHANGED <<now, store, op, ledger, watched_outputs, txids, txid, dumps, markedAt,
                   matchVars>>

\* lines 73-75: the identifier is in the cache
Scan_seen ==
    /\ pc = "scan"
    /\ txids # <<>>
    /\ LET r == contains(store, Head(txids), now)
       IN  /\ r.ret
           /\ store' = r.store
    /\ txids' = Tail(txids)
    /\ cyc' = [cyc EXCEPT !.seen = @ \cup {Head(txids)}]
    /\ UNCHANGED <<now, op, ledger, pc, watched_outputs, txid, dumps, markedAt, matchVars>>

\* lines 74-82 without the try/except: the exception reaches run()
Fetch_raises_aborts ==
    /\ pc = "scan"
    /\ txids # <<>>
    /\ LET r == contains(store, Head(txids), now)
       IN  /\ ~r.ret
           /\ store' = r.store
    /\ txid' = Head(txids)
    /\ txids' = Tail(txids)
    /\ pc' = "sleep"
    /\ cyc' = [cyc EXCEPT !.fetched = @ \cup {Head(txids)}, !.failed = @ \cup {Head(txids)},
                          !.raised = TRUE]
    /\ UNCHANGED <<now, op, ledger, watched_outputs, dumps, markedAt, matchVars>>

\* lines 74-82: the fetch raises
Fetch_raises ==
    /\ pc = "scan"
    /\ txids # <<>>
    /\ LET r == contains(store, Head(txids), now)
       IN  /\ ~r.ret
           /\ store' = r.store
    /\ txid' = Head(txids)
    /\ txids' = Tail(txids)
    /\ pc' = "mark"
    /\ cyc' = [cyc EXCEPT !.fetched = @ \cup {Head(txids)}, !.failed = @ \cup {Head(txids)},
                          !.raised = TRUE]
    /\ UNCHANGED <<now, op, ledger, watched_outputs, dumps, markedAt, matchVars>>

\* lines 74-82 with the dump outside the try/except: its exception reaches run()
Fetch_ok_dump_error_aborts ==
    /\ pc = "scan"
    /\ txids # <<>>
    /\ LET r == contains(store, Head(txids), now)
       IN  /\ ~r.ret
           /\ store' = r.store
    /\ txid' = Head(txids)
    /\ txids' = Tail(txids)
    /\ LET raw_tx == detail(Head(txids))
       IN  \/ /\ ~tx_spends_watched_outputs(raw_tx, watched_outputs)
              /\ pc' = "mark"
              /\ cyc' = [cyc EXCEPT !.fetched = @ \cup {Head(txids)}]
              /\ UNCHANGED dumps
           \/ /\ tx_spends_watched_outputs(raw_tx, watched_outputs)
              /\ pc' = "mark"
              /\ dumps' = dump_transaction(raw_tx, dumps)
              /\ cyc' = [cyc EXCEPT !.fetched = @ \cup {Head(txids)},
                                    !.dumped = dump_transaction(raw_tx, @)]
           \/ /\ tx_spends_watched_outputs(raw_tx, watched_outputs)
              /\ pc' = "sleep"
              /\ cyc' = [cyc EXCEPT !.fetched = @ \cup {Head(txids)},
                                    !.lost = @ \cup {Head(txids)}, !.raised = TRUE]
              /\ UNCHANGED dumps
    /\ UNCHANGED <<now, op, ledger, watched_outputs, markedAt, matchVars>>

\* lines 74-82: the fetch succeeds; the dump, when there is one, succeeds or raises
Fetch_ok ==
    /\ pc = "scan"
    /\ txids # <<>>
    /\ LET r == contains(store, Head(txids), now)
       IN  /\ ~r.ret
           /\ store' = r.store
    /\ txid' = Head(txids)
    /\ txids' = Tail(txids)
    /\ pc' = "mark"
    /\ LET raw_tx == detail(Head(txids))
       IN  \/ /\ ~tx_spends_watched_outputs(raw_tx, watched_outputs)
              /\ cyc' = [cyc EXCEPT !.fetched = @ \cup {Head(txids)}]
              /\ UNCHANGED dumps
           \/ /\ tx_spends_watched_outputs(raw_tx, watched_outputs)
              /\ dumps' = dump_transaction(raw_tx, dumps)
              /\ cyc' = [cyc EXCEPT !.fetched = @ \cup {Head(txids)},
                                    !.dumped = dump_transaction(raw_tx, @)]
           \/ /\ tx_spends_watched_outputs(raw_tx, watched_outputs)
              /\ cyc' = [cyc EXCEPT !.fetched = @ \cup {Head(txids)},
                                    !.lost = @ \cup {Head(txids)}, !.raised = TRUE]
              /\ UNCHANGED dumps
    /\ UNCHANGED <<now, op, ledger, watched_outputs, markedAt, matchVars>>

\* line 84 with the fetch interval passed as the TTL
Mark_short_ttl ==
    /\ pc = "mark"
    /\ pc' = "scan"
    /\ store' = set(store, txid, TRUE, <<FetchInterval>>, now)
    /\ markedAt' = [markedAt EXCEPT ![txid] = now]
    /\ cyc' = [cyc EXCEPT !.marked = @ \cup {txid}]
    /\ UNCHANGED <<now, op, ledger, watched_outputs, txids, txid, dumps, matchVars>>

\* line 84
Mark ==
    /\ pc = "mark"
    /\ pc' = "scan"
    /\ store' = set(store, txid, TRUE, None, now)
    /\ markedAt' = [markedAt EXCEPT ![txid] = now]
    /\ cyc' = [cyc EXCEPT !.marked = @ \cup {txid}]
    /\ UNCHANGED <<now, op, ledger, watched_outputs, txids, txid, dumps, matchVars>>

\* the end of the for loop without the cleanup() of line 86
Sweep_skipped ==
    /\ pc = "scan"
    /\ txids = <<>>
    /\ pc' = "sleep"
    /\ cyc' = [cyc EXCEPT !.swept = TRUE]
    /\ UNCHANGED <<now, store, op, ledger, watched_outputs, txids, txid, dumps, markedAt,
                   matchVars>>

\* line 86, once the for loop is over
Sweep ==
    /\ pc = "scan"
    /\ txids = <<>>
    /\ pc' = "sleep"
    /\ store' = cleanup(store, now)
    /\ cyc' = [cyc EXCEPT !.swept = TRUE]
    /\ UNCHANGED <<now, op, ledger, watched_outputs, txids, txid, dumps, markedAt, matchVars>>

\* lines 63-64, then the next turn of the while loop
Sleep ==
    /\ pc = "sleep"
    /\ now + FetchInterval <= MaxTime
    /\ now' = now + FetchInterval
    /\ pc' = "load"
    /\ UNCHANGED <<store, op, ledger, watched_outputs, txids, txid, dumps, markedAt, cyc,
                   matchVars>>

InitPollerIdle ==
    /\ pc = "idle"
    /\ watched_outputs = {}
    /\ txids = <<>>
    /\ txid = NoKey
    /\ dumps = {}
    /\ markedAt = [id \in TxIds |-> -1]
    /\ cyc = NoCycle

\* What one pass of the for loop and the sweep leave behind.
NoScan == [store |-> EmptyDict, dumps |-> {}, marked |-> {}]

NoOrder == [failing |-> {}, losing |-> {}, done |-> FALSE, perm |-> <<>>,
            a |-> NoScan, b |-> NoScan]

InitMatchIdle ==
    /\ tx = EmptyDict
    /\ spends = [done |-> FALSE, ret |-> FALSE]
    /\ order = NoOrder

\* __init__: the cache is empty and the watch-list was loaded without an error
Init ==
    /\ now = 0
    /\ store = EmptyDict
    /\ op = NoCall
    /\ ledger = [k \in Keys |-> NoSet]
    /\ pc = "load"
    /\ watched_outputs \in {load_watched_outputs(f).ret :
                              f \in {g \in Files : ~load_watched_outputs(g).raised}}
    /\ txids = <<>>
    /\ txid = NoKey
    /\ dumps = {}
    /\ markedAt = [id \in TxIds |-> -1]
    /\ cyc = NoCycle
    /\ InitMatchIdle

Next ==
    \/ Tick
    \/ Load
    \/ \E listing \in SeqsUpTo(TxIds, MaxList) : List_ok(listing)
    \/ List_raises
    \/ Scan_seen
    \/ Fetch_raises
    \/ Fetch_ok
    \/ Mark
    \/ Sweep
    \/ Sleep

Spec == Init /\ [][Next]_vars

---------------------------------------------------------------------------
(* Specification of the cache alone *)

InitCache ==
    /\ now = 0
    /\ store = EmptyDict
    /\ op = NoCall
    /\ ledger = [k \in Keys |-> NoSet]
    /\ InitPollerIdle
    /\ InitMatchIdle

NextCache ==
    \/ Tick
    \/ \E key \in Keys, value \in Values, ttl \in {None} \cup {<<n>> : n \in 0..MaxTtl} :
            Cache_set(key, value, ttl)
    \/ \E key \in Keys, value \in Values : Cache_setitem(key, value)
    \/ \E key \in Keys : Cache_get(key)
    \/ \E key \in Keys : Cache_delitem(key)
    \/ \E key \in Keys : Cache_contains(key)
    \/ Cache_cleanup
    \/ Cache_len
    \/ Cache_iter

SpecCache == InitCache /\ [][NextCache]_vars

---------------------------------------------------------------------------
(* Specification of the match predicate alone *)

Vins ==
    {[txid |-> t, vout |-> v] : t \in PrevTxids, v \in Vouts}
        \cup {[txid |-> t] : t \in PrevTxids}
        \cup {[vout |-> v] : v \in Vouts}
        \cup {[coinbase |-> "04"]}

Txs ==
    {[txid |-> "t1"]} \cup {[txid |-> "t1", vin |-> q] : q \in SeqsUpTo(Vins, MaxVin)}

InitMatch ==
    /\ now = 0
    /\ store = EmptyDict
    /\ op = NoCall
    /\ ledger = [k \in Keys |-> NoSet]
    /\ pc = "idle"
    /\ watched_outputs \in SUBSET (PrevTxids \X Vouts)
    /\ txids = <<>>
    /\ txid = NoKey
    /\ dumps = {}
    /\ markedAt = [id \in TxIds |-> -1]
    /\ cyc = NoCycle
    /\ tx \in Txs
    /\ spends = [done |-> FALSE, ret |-> FALSE]
    /\ order = NoOrder

Match_call ==
    /\ ~spends.done
    /\ spends' = [done |-> TRUE, ret |-> tx_spends_watched_outputs(tx, watched_outputs)]
    /\ UNCHANGED <<now, store, op, ledger, pollerVars, tx, order>>

NextMatch == Match_call

SpecMatch == InitMatch /\ [][NextMatch]_vars

---------------------------------------------------------------------------
(* Specification of one scan made in two orders *)

\* the for loop left at the first fetch that raises
RECURSIVE process_txids_stops_on_failure(_, _, _, _, _, _)
process_txids_stops_on_failure(ids, st, watched, failing, losing, t) ==
    IF ids = <<>> THEN st
    ELSE LET id == Head(ids)
             c  == contains(st.store, id, t)
         IN  IF c.ret
             THEN process_txids_stops_on_failure(Tail(ids), [st EXCEPT !.store = c.store],
                                                 watched, failing, losing, t)
             ELSE IF id \in failing THEN [st EXCEPT !.store = c.store]
             ELSE LET raw_tx == detail(id)
                      dumped == /\ tx_spends_watched_outputs(raw_tx, watched)
                                /\ id \notin losing
                  IN  process_txids_stops_on_failure(
                          Tail(ids),
                          [store  |-> set(c.store, id, TRUE, None, t),
                           dumps  |-> IF dumped THEN dump_transaction(raw_tx, st.dumps)
                                      ELSE st.dumps,
                           marked |-> st.marked \cup {id}],
                          watched, failing, losing, t)

\* _process_mempool(), lines 73-84, at the fixed time t: the fetch of an identifier of
\* `failing` raises, the dump of an identifier of `losing` raises.
RECURSIVE process_txids(_, _, _, _, _, _)
process_txids(ids, st, watched, failing, losing, t) ==
    IF ids = <<>> THEN st
    ELSE LET id == Head(ids)
             c  == contains(st.store, id, t)
         IN  IF c.ret
             THEN process_txids(Tail(ids), [st EXCEPT !.store = c.store],
                                watched, failing, losing, t)
             ELSE LET raw_tx == detail(id)
                      dumped == /\ id \notin failing
                                /\ tx_spends_watched_outputs(raw_tx, watched)
                                /\ id \notin losing
                  IN  process_txids(
                          Tail(ids),
                          [store  |-> set(c.store, id, TRUE, None, t),
                           dumps  |-> IF dumped THEN dump_transaction(raw_tx, st.dumps)
                                      ELSE st.dumps,
                           marked |-> st.marked \cup {id}],
                          watched, failing, losing, t)

\* _process_mempool() once line 72 has returned ids: the loop, then the sweep of line 86
process_mempool(ids, s, watched, failing, losing, t) ==
    LET st == process_txids(ids, [NoScan EXCEPT !.store = s], watched, failing, losing, t)
    IN  [st EXCEPT !.store = cleanup(st.store, t)]

\* The caches the scan can start from: entries of listed identifiers that expire
\* before, at or after the time of the scan.
Stores ==
    UNION {[S -> {[value |-> TRUE, expiry |-> e] : e \in 0..CacheTtl}] : S \in SUBSET TxIds}

\* The sequences that hold the identifiers of q, each as often as q does.
Reorderings(q) ==
    {p \in SeqsUpTo(TxIds, Len(q)) :
        /\ Len(p) = Len(q)
        /\ \A id \in TxIds :
              Cardinality({i \in DOMAIN p : p[i] = id})
                  = Cardinality({i \in DOMAIN q : q[i] = id})}

InitOrder ==
    /\ now = 1
    /\ store \in Stores
    /\ op = NoCall
    /\ ledger = [k \in Keys |-> NoSet]
    /\ pc = "idle"
    /\ watched_outputs \in {{<<"a", 0>>}, {<<"a", 0>>, <<"b", 1>>}}
    /\ txids \in SeqsUpTo(TxIds, MaxOrder)
    /\ txid = NoKey
    /\ dumps = {}
    /\ markedAt = [id \in TxIds |-> -1]
    /\ cyc = NoCycle
    /\ tx = EmptyDict
    /\ spends = [done |-> FALSE, ret |-> FALSE]
    /\ \E failing \in SUBSET TxIds, losing \in SUBSET TxIds :
          order = [NoOrder EXCEPT !.failing = failing, !.losing = losing]

Order_call(perm) ==
    /\ ~order.done
    /\ perm \in Reorderings(txids)
    /\ order' = [order EXCEPT
                    !.done = TRUE,
                    !.perm = perm,
                    !.a = process_mempool(txids, store, watched_outputs,
                                          order.failing, order.losing, now),
                    !.b = process_mempool(perm, store, watched_outputs,
                                          order.failing, order.losing, now)]
    /\ UNCHANGED <<now, store, op, ledger, pollerVars, tx, spends>>

NextOrder == \E perm \in SeqsUpTo(TxIds, MaxOrder) : Order_call(perm)

SpecOrder == InitOrder /\ [][NextOrder]_vars

---------------------------------------------------------------------------
(* Properties *)

\* Some input of t carries both fields and the pair is in W.
SpendsWatched(t, W) ==
    /\ "vin" \in DOMAIN t
    /\ \E i \in DOMAIN t.vin :
          /\ {"txid", "vout"} \subseteq DOMAIN t.vin[i]
          /\ <<t.vin[i].txid, t.vin[i].vout>> \in W

\* The cycle listed its candidates, visited them all and swept, and nothing raised.
CleanCycle ==
    /\ pc = "sleep"
    /\ cyc.listed
    /\ cyc.swept
    /\ cyc.failed = {}
    /\ cyc.lost = {}

\* C1 as claimed: a membership test of a key set at time s with TTL t, with no set or
\* delete of the key since, answers true before s + t and false from s + t on.
C1_TtlProperty ==
    (op.name = "contains" /\ ledger[op.key].at >= 0)
        => (op.found <=> now < ledger[op.key].at + ledger[op.key].ttl)

\* C2 as claimed, read on the runs in which no call has raised in any cycle so far:
\* at the end of a cycle, every listed candidate that spends a watched output of this
\* cycle's watch-list has a dump.
C2_DetectionCompleteness ==
    (CleanCycle /\ ~cyc.raised) =>
        \A id \in cyc.listing :
            SpendsWatched(detail(id), watched_outputs) => id \in dumps

\* C2 amended: at the end of a cycle in which nothing raised, every listed candidate
\* that the cache did not report seen when it was scanned, and that spends a watched
\* output of this cycle's watch-list, was dumped in this cycle.
C2_DetectionOfUnseen ==
    CleanCycle =>
        \A id \in cyc.fetched :
            SpendsWatched(detail(id), watched_outputs) => (id \in cyc.dumped /\ id \in dumps)

C2_Witness ==
    /\ CleanCycle
    /\ \E id \in cyc.fetched : SpendsWatched(detail(id), watched_outputs) /\ id \in cyc.dumped
    /\ \E id \in cyc.seen \ cyc.fetched :
          SpendsWatched(detail(id), watched_outputs) /\ id \notin dumps

\* C3 as claimed: no error of a cycle, the reload of the watch-list included, ends
\* the loop of run().
C3_LoopNeverTerminates == pc # "raised"

\* C4: an identifier is fetched (and so dumped) only if it was never marked seen or
\* at least cache_ttl has elapsed since it was last marked.
C4_DedupByCache ==
    pc = "mark" => (markedAt[txid] = -1 \/ now - markedAt[txid] >= CacheTtl)

C4_Witness ==
    /\ pc = "mark"
    /\ markedAt[txid] >= 0
    /\ cyc.seen # {}

\* C5: a fetch that raises does not end the loop; the cycle it happens in visits
\* every listed candidate (each is found in the cache or fetched), dumps every
\* fetched candidate that matches unless its own fetch or dump raised, sweeps, and
\* reaches the sleep.
C5_IsolatedFetchFailure ==
    /\ (cyc.failed # {}) => pc # "raised"
    /\ (pc = "sleep" /\ cyc.failed # {}) =>
          /\ cyc.swept
          /\ cyc.listing \subseteq (cyc.seen \cup cyc.fetched)
          /\ cyc.fetched \subseteq cyc.marked
          /\ \A id \in cyc.fetched \ (cyc.failed \cup cyc.lost) :
                SpendsWatched(detail(id), watched_outputs) => id \in cyc.dumped

C5_Witness ==
    /\ pc = "sleep"
    /\ "t2" \in cyc.failed
    /\ "t1" \in cyc.dumped \ cyc.failed
    /\ cyc.swept

\* C6 as claimed: an identifier whose fetch raised is not marked seen by that cycle.
C6_MarkOnlyAfterSuccess == cyc.failed \cap cyc.marked = {}

\* C7: the match predicate answers true exactly when some input carries both a
\* spent txid and a spent index and that pair is in the watch-list.
C7_MatchPredicate ==
    spends.done => (spends.ret <=> SpendsWatched(tx, watched_outputs))

C7_Witness ==
    /\ spends.done
    /\ spends.ret
    /\ Len(tx.vin) = 2
    /\ DOMAIN tx.vin[1] = {"txid"}
    /\ watched_outputs = {<<"b", 1>>}

\* C8 as claimed: a cycle that begins with an empty cache and in which nothing raises
\* dumps exactly the listed candidates that match, and leaves an entry for every
\* listed candidate in the cache.
C8_EndToEnd ==
    (CleanCycle /\ cyc.empty) =>
        /\ cyc.dumped = {id \in cyc.listing : SpendsWatched(detail(id), watched_outputs)}
        /\ \A id \in cyc.listing : id \in DOMAIN store

\* C8 amended: such a cycle dumps exactly the listed candidates that match and marks
\* every listed candidate seen; the cache still reports a listed candidate while less
\* than cache_ttl has elapsed since it was marked.
C8_EndToEndWithinTtl ==
    (CleanCycle /\ cyc.empty) =>
        /\ cyc.dumped = {id \in cyc.listing : SpendsWatched(detail(id), watched_outputs)}
        /\ cyc.dumped \subseteq dumps
        /\ \A id \in cyc.listing :
              /\ id \in cyc.marked
              /\ (now - markedAt[id] < CacheTtl) => contains(store, id, now).ret

C8_Witness ==
    /\ CleanCycle
    /\ cyc.empty
    /\ cyc.listing = {"t1", "t2"}
    /\ cyc.dumped = {"t1"}
    /\ DOMAIN store = {"t1", "t2"}

\* C9 as claimed: right after cleanup() at time now the store holds no entry whose
\* expiry is at or before now.
C9_SweepPostcondition ==
    op.name = "cleanup" => \A k \in DOMAIN store : ~(store[k].expiry <= now)

\* C10: cleanup() at time now leaves every entry whose expiry is after now in the
\* store with its value and expiry, and adds no entry.
C10_SweepFrame ==
    [][op'.name = "cleanup" =>
          /\ \A k \in DOMAIN store :
                store[k].expiry > now => (k \in DOMAIN store' /\ store'[k] = store[k])
          /\ DOMAIN store' \subseteq DOMAIN store]_vars

C10_Witness ==
    /\ op.name = "cleanup"
    /\ op.evicted # {}
    /\ \E k \in DOMAIN store : store[k].expiry > now

\* C11: set(k, v2, ttl) or cache[k] = v2 at time s on a key holding an unexpired
\* entry leaves k with value v2 and expiry s + ttl, whatever the entry it replaces,
\* and changes no other key.
C11_ReinsertionReplaces ==
    [][(/\ op'.name \in {"set", "setitem"}
        /\ op'.key \in DOMAIN store
        /\ store[op'.key].expiry > now)
          => /\ op'.key \in DOMAIN store'
             /\ store'[op'.key] =
                    [value |-> op'.value, expiry |-> now + ledger'[op'.key].ttl]
             /\ DOMAIN store' = DOMAIN store
             /\ \A k \in DOMAIN store \ {op'.key} : store'[k] = store[k]]_vars

C11_Witness ==
    /\ op.name = "set"
    /\ op.old.expiry > now
    /\ op.old.value # op.value
    /\ store[op.key].expiry < op.old.expiry
    /\ Cardinality(DOMAIN store) = 2

\* C12: when the listing raises, the cycle goes straight to the sleep with the error
\* reported, having fetched nothing, written no dump and added no cache entry, and
\* the next step of the loop after the sleep is the next cycle's load.
C12_ListingFailureAbortsCycle ==
    [][/\ (pc = "list" /\ pc' # "list" /\ ~cyc'.listed) =>
            /\ pc' = "sleep"
            /\ cyc'.raised
            /\ store' = store
            /\ dumps' = dumps
            /\ markedAt' = markedAt
            /\ cyc'.fetched = {} /\ cyc'.dumped = {} /\ cyc'.marked = {}
       /\ (pc = "sleep" /\ pc' # "sleep") =>
            /\ pc' = "load"
            /\ store' = store
            /\ dumps' = dumps]_vars

C12_Witness ==
    /\ pc = "load"
    /\ now > 0
    /\ cyc.loaded
    /\ ~cyc.listed
    /\ cyc.raised
    /\ store # EmptyDict

\* C13: a dump that raises does not end the loop; the cycle it happens in visits every
\* listed candidate, marks the failing identifier seen, sweeps and reaches the sleep;
\* and an identifier is fetched (the only place its dump is attempted) only when the
\* cache holds no unexpired entry for it, so the fetch leaves no entry behind it.
C13_PersistenceFailureContained ==
    /\ (cyc.lost # {}) => pc # "raised"
    /\ (pc = "sleep" /\ cyc.lost # {}) =>
          /\ cyc.swept
          /\ cyc.listing \subseteq (cyc.seen \cup cyc.fetched)
          /\ cyc.lost \subseteq cyc.marked
    /\ (pc = "mark") => txid \notin DOMAIN store
    /\ (pc = "scan" /\ cyc.lost # {} /\ txid \in cyc.lost) =>
          (txid \in cyc.marked /\ (now - markedAt[txid] < CacheTtl => txid \in DOMAIN store))

C13_Witness ==
    /\ pc = "sleep"
    /\ cyc.lost = {"t1"}
    /\ "t1" \notin dumps
    /\ "t1" \in DOMAIN store
    /\ "t2" \in cyc.fetched \ cyc.lost

\* A non-blank line that is "txid,index" with a decimal index, and the pair it names.
WellFormed(line) == Len(line) = 2 /\ line[2] \in {"0", "1", "01"}
PairOf(line) == <<line[1], IF line[2] = "0" THEN 0 ELSE 1>>

\* C14: after a load that succeeds, and so at every match of that cycle, the watch-list
\* is exactly the set of pairs of the non-blank lines of the file the cycle read, all
\* of them well formed; a load fails only on a missing file or a malformed line, and
\* then leaves the watch-list as it was.
C14_AtomicReload ==
    [][/\ cyc'.loaded =>
            /\ cyc'.exists
            /\ \A l \in cyc'.lines : WellFormed(l)
            /\ watched_outputs' = {PairOf(l) : l \in cyc'.lines}
       /\ (pc = "load" /\ pc' = "raised") =>
            /\ ~cyc'.loaded
            /\ ~cyc'.exists \/ \E l \in cyc'.lines : ~WellFormed(l)
            /\ watched_outputs' = watched_outputs
       /\ (pc = "load" /\ pc' \notin {"load", "raised"}) => cyc'.loaded]_vars

C14_Witness ==
    /\ pc = "mark"
    /\ now > 0
    /\ cyc.lines = {<<"a", "0">>, <<"b", "01">>}
    /\ watched_outputs = {<<"a", 0>>, <<"b", 1>>}
    /\ txid \in cyc.dumped

\* k has an entry in s whose expiry is not yet behind t
Live(s, k, t) == k \in DOMAIN s /\ ~(t > s[k].expiry)

\* s without the entry of k when that entry is stale, s itself otherwise
LazilyEvicted(s, k, t) ==
    IF k \in DOMAIN s /\ ~Live(s, k, t) THEN [j \in DOMAIN s \ {k} |-> s[j]] ELSE s

C16_SizeExcludesExpired ==
    /\ op.name = "len" =>
          op.size = Cardinality({k \in Keys : contains(store, k, now).ret})
    /\ op.name = "iter" =>
          op.keys = {k \in Keys : contains(store, k, now).ret}

C16_Witness ==
    /\ op.name = "len"
    /\ op.evicted # {}
    /\ op.size = 1

\* C17: every key of the cache is an identifier a candidate listing returned; the
\* poller writes an entry only for the listed identifier it has just processed, with the
\* default TTL, and a step that changes the watch-list writes nothing to the cache.
C17_KeySpace ==
    [][/\ DOMAIN store' \subseteq cyc'.known
       /\ cyc'.known \subseteq TxIds
       /\ \A k \in DOMAIN store' :
             (k \notin DOMAIN store \/ store'[k] # store[k]) =>
                 /\ k = txid
                 /\ k \in cyc.listing
                 /\ store'[k] = [value |-> TRUE, expiry |-> now + CacheTtl]
       /\ watched_outputs' # watched_outputs => store' = store]_vars

C17_Witness ==
    /\ DOMAIN store = {"t1", "t2"}
    /\ watched_outputs = {<<"a", 0>>, <<"b", 1>>}
    /\ cyc.marked = {"t2"}
    /\ "t1" \notin cyc.listing

\* C18: for a fixed cache, watch-list, listing and time, the scan dumps the same set of
\* identifiers and leaves the same identifiers marked seen in every order of the
\* listing, whichever fetches and dumps fail.
C18_OrderIndependence ==
    order.done =>
        /\ order.a.dumps = order.b.dumps
        /\ order.a.marked = order.b.marked
        /\ DOMAIN order.a.store = DOMAIN order.b.store
        /\ order.a.store = order.b.store

C18_Witness ==
    /\ order.done
    /\ order.perm # txids
    /\ Head(order.perm) # Head(txids)
    /\ order.failing = {"t2"}
    /\ order.losing = {}
    /\ order.a.dumps = {"t1"}
    /\ order.a.marked = {"t1", "t2"}
    /\ store # EmptyDict

\* C19: a cycle whose listing succeeded reaches the sleep step by the sweep, made once
\* the loop and so every cache write of the cycle is over; at that point every entry of
\* the store was set at most CacheTtl earlier, whether its identifier is listed or not.
C19_SweepBoundsStore ==
    [][(pc # "sleep" /\ pc' = "sleep" /\ cyc'.listed) =>
          /\ pc = "scan" /\ txids = <<>>
          /\ cyc'.swept
          /\ cyc'.marked = cyc.marked
          /\ \A k \in DOMAIN store' :
                /\ markedAt'[k] >= 0
                /\ now' - markedAt'[k] <= CacheTtl]_vars

C19_Witness ==
    /\ pc = "sleep"
    /\ cyc.listed
    /\ cyc.swept
    /\ \E k \in DOMAIN store : k \notin cyc.listing /\ markedAt[k] < now
    /\ \E k \in TxIds : markedAt[k] >= 0 /\ k \notin DOMAIN store

\* The reference cache is the ledger: it keeps every entry set and not deleted since,
\* and on a read compares the expiry of the entry with the clock.
RefLive(k) == ledger[k].at >= 0 /\ ~(now > ledger[k].at + ledger[k].ttl)

\* C20: what get, contains and len (and iteration) return is what the reference cache
\* returns for the same calls at the same times.
C20_EvictionTransparent ==
    /\ op.name = "contains" => op.found = RefLive(op.key)
    /\ op.name = "get" =>
          op.value = IF RefLive(op.key) THEN ledger[op.key].value ELSE NoValue
    /\ op.name = "len" => op.size = Cardinality({k \in Keys : RefLive(k)})
    /\ op.name = "iter" => op.keys = {k \in Keys : RefLive(k)}

C20_Witness ==
    /\ op.name = "get"
    /\ op.value = NoValue
    /\ op.evicted = {}
    /\ ledger[op.key].at >= 0
    /\ op.key \notin DOMAIN store
    /\ \E k \in DOMAIN store : RefLive(k)

=============================================================================
